---- MODULE Spec2Model ----
(***************************************************************************)
(* Model of 02_data_augmentation/wake_word_mixer.py.                       *)
(*                                                                         *)
(* Spec     : the script run (target validation, output directory          *)
(*            handling, the target loop, the _other loop) with mix_files   *)
(*            stepped one (word file, background file) pair at a time.     *)
(* SpecMix  : one call of mix_audio on concrete waveforms.                 *)
(*                                                                         *)
(* A filename is the sequence of its decimal digits (the constant ".wav"   *)
(* suffix is left out).  sample_time is the rational tnum / TDen.          *)
(***************************************************************************)
EXTENDS Integers, Sequences, FiniteSets, TLC

VARIABLES
    \* ---- the script run ----
    word_list,      \* listdir(words_dir), in listing order
    nfiles,         \* number of files in each word subdirectory
    bg_list,        \* listdir(bg_dir): the sample count of each clip
    targets,        \* the -t argument after split(',') and strip()
    out_state,      \* out_dir on disk: "absent", "old", "file", "new"
    pc,             \* position of the script
    error,          \* "none", or why the run stopped
    target_list,
    other_list,
    tpos,           \* position of the target loop (line 376)
    opos,           \* position of the _other loop (line 407)
    word_path,      \* global read by mix_files (line 205)
    out_subdir,     \* global read by mix_files (line 218)
    digit_cnt,      \* global computed for _other (lines 398-401)
    last_file_num,
    frame,          \* the current mix_files call
    fs,             \* output subdirectory -> set of filenames in it
    log,            \* every sf.write that succeeded, in order
    \* ---- one mix_audio call ----
    mpc,            \* position inside mix_audio
    m_word,         \* [given, samples]: word_path and what librosa.load gives
    m_bg,           \* [given, samples]: bg_path and what librosa.load gives
    m_tnum,         \* sample_time = m_tnum / TDen
    m_rate,         \* sample_rate
    m_wvol,
    m_bvol,
    waveform,
    start_point,
    end_point,
    window,         \* bg_waveform[start_point:end_point]
    m_ret           \* the returned waveform (doubled samples after a blend)

mainVars == <<word_list, nfiles, bg_list, targets, out_state, pc, error,
              target_list, other_list, tpos, opos, word_path, out_subdir,
              digit_cnt, last_file_num, frame, fs, log>>
mixVars == <<mpc, m_word, m_bg, m_tnum, m_rate, m_wvol, m_bvol, waveform,
             start_point, end_point, window, m_ret>>
vars == <<mainVars, mixVars>>

----------------------------------------------------------------------------
(* Bounds *)

MaxFiles == 3
MaxBg == 4
MaxTargets == 2
MaxLen == 3
MaxTNum == 6
MaxRate == 3
MaxVol == 2
TDen == 4

WordNames == <<"hello", "stop", "cat">>
TargetNames == {"hello", "stop", "banana"}
Samples == {1, 2}

\* int(sample_time * sample_rate) of the script run
RunTarget == 2
BgLens == {RunTarget - 1, RunTarget}

----------------------------------------------------------------------------
(* Helpers *)

Range(s) == {s[k] : k \in 1..Len(s)}

SeqsUpTo(S, n) == UNION {[1..k -> S] : k \in 0..n}

----------------------------------------------------------------------------
(* Filenames: str(), zfill() and the digit-count loops *)

RECURSIVE Str(_)
Str(n) == IF n < 10 THEN <<n>> ELSE Str(n \div 10) \o <<n % 10>>

zfill(s, width) ==
    IF Len(s) >= width THEN s ELSE [k \in 1..(width - Len(s)) |-> 0] \o s

RECURSIVE ParseInt(_)
ParseInt(s) ==
    IF s = <<>> THEN 0
    ELSE 10 * ParseInt(SubSeq(s, 1, Len(s) - 1)) + s[Len(s)]

NumDigits(n) == Len(Str(n))

RECURSIVE digit_loop(_, _)
digit_loop(calc_files, cnt) ==
    IF calc_files > 1 THEN digit_loop(calc_files \div 10, cnt + 1) ELSE cnt

mix_files_digit_cnt(num_output_files) == digit_loop(num_output_files, 1)

RECURSIVE main_digit_loop(_, _)
main_digit_loop(num_output_files, cnt) ==
    IF num_output_files > 1
    THEN main_digit_loop(num_output_files \div 10, cnt + 1)
    ELSE cnt

main_digit_cnt_flat(num_output_files) == 1
main_digit_cnt(num_output_files) == main_digit_loop(num_output_files, 1)

file_index(start_cnt, file_cnt) == start_cnt + file_cnt

filename(start_cnt, file_cnt, num_file_digits) ==
    zfill(Str(file_index(start_cnt, file_cnt)), num_file_digits)

\* 100 * (iteration / float(total)) divides by zero when total is 0
print_progress_bar_raises(iteration, total) == total = 0

----------------------------------------------------------------------------
(* mix_audio: lengths and the random window *)

\* int(sample_time * sample_rate)
Target(tnum, rate) == (tnum * rate) \div TDen

max_end_no_sub(bg_len, target) == bg_len
max_end(bg_len, target) == bg_len - target

\* random.randint(a, b) raises ValueError on an empty range
randint_raises(a, b) == b < a

mix_audio_never_raises(bg_len, target) == FALSE
mix_audio_raises(bg_len, target) == randint_raises(0, max_end(bg_len, target))

----------------------------------------------------------------------------
(* main: the target and other lists *)

target_missing_first_only(tl, wl) == tl[1] \notin Range(wl)
target_missing(tl, wl) == \E k \in 1..Len(tl) : tl[k] \notin Range(wl)

\* list(dict.fromkeys(target_list)): first occurrences, order kept
RECURSIVE fromkeys(_)
fromkeys(tl) ==
    IF tl = <<>> THEN <<>>
    ELSE LET init == fromkeys(SubSeq(tl, 1, Len(tl) - 1))
             last == tl[Len(tl)]
         IN IF last \in Range(init) THEN init ELSE Append(init, last)

make_other_list(wl, tl) == SelectSeq(wl, LAMBDA name : name \notin Range(tl))

RECURSIVE count_word_files(_, _)
count_word_files(ol, nf) ==
    IF ol = <<>> THEN 0 ELSE nf[Head(ol)] + count_word_files(Tail(ol), nf)

other_dir_name == "_other"

target_start_cnt == 0
other_start_cnt_zero(last) == 0
other_start_cnt(last) == last

----------------------------------------------------------------------------
(* The script run *)

NoFrame ==
    [call |-> 0, caller |-> "none", word_dir |-> "", out_dir |-> "",
     digits_given |-> FALSE, num_file_digits |-> 0, start_cnt |-> 0,
     num_word_files |-> 0, num_bg_files |-> 0, num_output_files |-> 0,
     file_cnt |-> 0, i |-> 0, j |-> 0, state |-> "none"]

\* mix_files(word_dir, bg_dir, out_dir, num_file_digits, start_cnt) is entered
NewFrame(caller, word_dir, out_dir, given, digits, start_cnt) ==
    [NoFrame EXCEPT !.call = frame.call + 1, !.caller = caller,
                    !.word_dir = word_dir, !.out_dir = out_dir,
                    !.digits_given = given, !.num_file_digits = digits,
                    !.start_cnt = start_cnt, !.state = "entered"]

listdir_raises(name) == name \notin Range(word_list)

IdleMix ==
    /\ mpc = "idle"
    /\ m_word = [given |-> FALSE, samples |-> <<>>]
    /\ m_bg = [given |-> FALSE, samples |-> <<>>]
    /\ m_tnum = 0 /\ m_rate = 0 /\ m_wvol = 0 /\ m_bvol = 0
    /\ waveform = <<>> /\ start_point = 0 /\ end_point = 0
    /\ window = <<>> /\ m_ret = <<>>

Init ==
    /\ word_list = WordNames
    /\ nfiles \in [Range(WordNames) -> 0..MaxFiles]
    /\ bg_list \in SeqsUpTo(BgLens, MaxBg)
    /\ targets \in SeqsUpTo(TargetNames, MaxTargets) \ {<<>>}
    /\ out_state \in {"absent", "old", "file"}
    /\ pc = "validate"
    /\ error = "none"
    /\ target_list = <<>>
    /\ other_list = <<>>
    /\ tpos = 1
    /\ opos = 1
    /\ word_path = ""
    /\ out_subdir = ""
    /\ digit_cnt = 0
    /\ last_file_num = 0
    /\ frame = NoFrame
    /\ fs = <<>>
    /\ log = <<>>
    /\ IdleMix

inputs == <<word_list, nfiles, bg_list, targets>>

\* lines 335-352: target validation, duplicates removed, the other list
Validate ==
    /\ pc = "validate"
    /\ IF target_missing(targets, word_list)
       THEN /\ pc' = "exit"
            /\ error' = "ConfigurationError"
            /\ UNCHANGED <<target_list, other_list>>
       ELSE /\ pc' = "check_out"
            /\ target_list' = fromkeys(targets)
            /\ other_list' = make_other_list(word_list, fromkeys(targets))
            /\ UNCHANGED error
    /\ UNCHANGED <<inputs, out_state, tpos, opos, word_path, out_subdir,
                   digit_cnt, last_file_num, frame, fs, log, mixVars>>

\* lines 354-366: an existing output directory is deleted after a yes
CheckOutDir ==
    /\ pc = "check_out"
    /\ IF out_state = "old"
       THEN \E resp \in BOOLEAN :
              IF resp
              THEN out_state' = "absent" /\ pc' = "create_out"
                   /\ UNCHANGED error
              ELSE pc' = "exit" /\ error' = "declined"
                   /\ UNCHANGED out_state
       ELSE pc' = "create_out" /\ UNCHANGED <<out_state, error>>
    /\ UNCHANGED <<inputs, target_list, other_list, tpos, opos, word_path,
                   out_subdir, digit_cnt, last_file_num, frame, fs, log,
                   mixVars>>

\* lines 368-373
CreateOutDir ==
    /\ pc = "create_out"
    /\ IF out_state = "absent"
       THEN out_state' = "new" /\ pc' = "targets" /\ UNCHANGED error
       ELSE pc' = "exit" /\ error' = "not deleted" /\ UNCHANGED out_state
    /\ UNCHANGED <<inputs, target_list, other_list, tpos, opos, word_path,
                   out_subdir, digit_cnt, last_file_num, frame, fs, log,
                   mixVars>>

\* join(out_dir, target): the subdirectory is named by the target word
target_out_subdir(target) == target

\* lines 375-387: one turn of the target loop, up to the call of mix_files
TargetLoop ==
    /\ pc = "targets"
    /\ IF tpos <= Len(target_list)
       THEN LET target == target_list[tpos]
                sub == target_out_subdir(target)
            IN /\ out_subdir' = sub
               /\ fs' = fs @@ (sub :> {})
               /\ word_path' = target
               /\ frame' = NewFrame("target", target, sub, FALSE, 0,
                                    target_start_cnt)
               /\ tpos' = tpos + 1
               /\ pc' = "mf_begin"
       ELSE /\ pc' = "count_other"
            /\ UNCHANGED <<out_subdir, fs, word_path, frame, tpos>>
    /\ UNCHANGED <<inputs, out_state, error, target_list, other_list, opos,
                   digit_cnt, last_file_num, log, mixVars>>

\* lines 389-406
CountOther ==
    /\ pc = "count_other"
    /\ LET num_word_files == count_word_files(other_list, nfiles)
           num_bg_files == Len(bg_list)
       IN digit_cnt' = main_digit_cnt(num_word_files * num_bg_files)
    /\ word_path' = IF other_list = <<>> THEN word_path
                    ELSE other_list[Len(other_list)]
    /\ out_subdir' = other_dir_name
    /\ fs' = fs @@ (other_dir_name :> {})
    /\ last_file_num' = 0
    /\ pc' = "others"
    /\ UNCHANGED <<inputs, out_state, error, target_list, other_list, tpos,
                   opos, frame, log, mixVars>>

\* lines 407-414: one turn of the _other loop, up to the call of mix_files
OtherLoop ==
    /\ pc = "others"
    /\ IF opos <= Len(other_list)
       THEN LET word == other_list[opos]
            IN /\ word_path' = word
               /\ frame' = NewFrame("other", word, out_subdir, TRUE,
                                    digit_cnt, other_start_cnt(last_file_num))
               /\ opos' = opos + 1
               /\ pc' = "mf_begin"
       ELSE /\ pc' = "done"
            /\ UNCHANGED <<word_path, frame, opos>>
    /\ UNCHANGED <<inputs, out_state, error, target_list, other_list, tpos,
                   out_subdir, digit_cnt, last_file_num, fs, log, mixVars>>

\* lines 180-201: the counts, the digit width, the first progress bar
MfBegin ==
    /\ pc = "mf_begin"
    /\ IF listdir_raises(frame.word_dir)
       THEN /\ pc' = "crashed"
            /\ error' = "FileNotFoundError"
            /\ frame' = [frame EXCEPT !.state = "raised"]
       ELSE LET num_word_files == nfiles[frame.word_dir]
                num_bg_files == Len(bg_list)
                num_output_files == num_word_files * num_bg_files
                digits == IF frame.digits_given THEN frame.num_file_digits
                          ELSE mix_files_digit_cnt(num_output_files)
                f == [frame EXCEPT !.num_word_files = num_word_files,
                                   !.num_bg_files = num_bg_files,
                                   !.num_output_files = num_output_files,
                                   !.num_file_digits = digits]
            IN IF print_progress_bar_raises(0, num_output_files)
               THEN /\ pc' = "crashed"
                    /\ error' = "ZeroDivisionError"
                    /\ frame' = [f EXCEPT !.state = "raised"]
               ELSE /\ pc' = "mf_pair"
                    /\ frame' = [f EXCEPT !.state = "running"]
                    /\ UNCHANGED error
    /\ UNCHANGED <<inputs, out_state, target_list, other_list, tpos, opos,
                   word_path, out_subdir, digit_cnt, last_file_num, fs, log,
                   mixVars>>

\* the loop position after the pair (i, j): the background loop is the inner one
next_pair_word_inner(i, j, num_bg) ==
    IF i + 1 < nfiles[word_path] THEN <<i + 1, j>> ELSE <<0, j + 1>>
next_pair(i, j, num_bg) ==
    IF j + 1 < num_bg THEN <<i, j + 1>> ELSE <<i + 1, 0>>

\* lines 203-229: one pair is mixed and written
MfPair ==
    /\ pc = "mf_pair"
    /\ frame.i < nfiles[word_path]
    /\ frame.j < Len(bg_list)
    /\ IF mix_audio_raises(bg_list[frame.j + 1], RunTarget)
       THEN /\ pc' = "crashed"
            /\ error' = "ValueError"
            /\ frame' = [frame EXCEPT !.state = "raised"]
            /\ UNCHANGED <<fs, log>>
       ELSE \E written \in BOOLEAN :
              IF written
              THEN LET name == filename(frame.start_cnt, frame.file_cnt,
                                        frame.num_file_digits)
                       nxt == next_pair(frame.i, frame.j, Len(bg_list))
                   IN /\ fs' = [fs EXCEPT ![out_subdir] = @ \cup {name}]
                      /\ log' = Append(log, [call |-> frame.call,
                                             dir |-> out_subdir,
                                             word |-> word_path,
                                             name |-> name,
                                             width |-> frame.num_file_digits,
                                             i |-> frame.i, j |-> frame.j])
                      /\ frame' = [frame EXCEPT !.file_cnt = @ + 1,
                                                !.i = nxt[1], !.j = nxt[2]]
                      /\ UNCHANGED <<pc, error>>
              ELSE /\ pc' = "crashed"
                   /\ error' = "EncodeError"
                   /\ frame' = [frame EXCEPT !.state = "raised"]
                   /\ UNCHANGED <<fs, log>>
    /\ UNCHANGED <<inputs, out_state, target_list, other_list, tpos, opos,
                   word_path, out_subdir, digit_cnt, last_file_num, mixVars>>

\* lines 231-233 and the caller's use of the returned count (line 410)
MfReturn ==
    /\ pc = "mf_pair"
    /\ ~ (frame.i < nfiles[word_path] /\ frame.j < Len(bg_list))
    /\ frame' = [frame EXCEPT !.state = "returned"]
    /\ IF frame.caller = "other"
       THEN pc' = "others" /\ last_file_num' = last_file_num + frame.file_cnt
       ELSE pc' = "targets" /\ UNCHANGED last_file_num
    /\ UNCHANGED <<inputs, out_state, error, target_list, other_list, tpos,
                   opos, word_path, out_subdir, digit_cnt, fs, log, mixVars>>

Next ==
    \/ Validate
    \/ CheckOutDir
    \/ CreateOutDir
    \/ TargetLoop
    \/ CountOther
    \/ OtherLoop
    \/ MfBegin
    \/ MfPair
    \/ MfReturn

Spec == Init /\ [][Next]_vars

----------------------------------------------------------------------------
(* One call of mix_audio *)

\* s[a:b] for 0 <= a, 0 <= b: the slice is clipped to the sequence
Slice(s, a, b) ==
    LET hi == IF b < Len(s) THEN b ELSE Len(s)
    IN IF a >= hi THEN <<>> ELSE SubSeq(s, a + 1, hi)

Zeros(n) == [k \in 1..n |-> 0]

\* len(waveform) < sample_time * sample_rate
too_short(len, tnum, rate) == len * TDen < tnum * rate

\* int((sample_time * sample_rate) - len(waveform))
pad_count(len, tnum, rate) == (tnum * rate - len * TDen) \div TDen

pad_front(w, tnum, rate) ==
    IF too_short(Len(w), tnum, rate)
    THEN Zeros(pad_count(Len(w), tnum, rate)) \o w
    ELSE w
pad(w, tnum, rate) ==
    IF too_short(Len(w), tnum, rate)
    THEN w \o Zeros(pad_count(Len(w), tnum, rate))
    ELSE w

truncate_skipped(w, tnum, rate) == w
truncate(w, tnum, rate) == Slice(w, 0, Target(tnum, rate))

\* lines 137-151
prepare_word(word, tnum, rate) ==
    IF ~ word.given
    THEN Zeros(Target(tnum, rate))
    ELSE truncate(pad(word.samples, tnum, rate), tnum, rate)

\* numpy adds two arrays of equal length, or stretches one of length 1
blend_raises(w, b) == Len(w) # Len(b) /\ Len(w) # 1 /\ Len(b) # 1

\* twice the mixed samples: 2 * (0.5 * word_vol * w + 0.5 * bg_vol * b)
blend(w, b, wvol, bvol) ==
    LET n == IF Len(w) = 1 THEN Len(b) ELSE Len(w)
        at(s, k) == IF Len(s) = 1 THEN s[1] ELSE s[k]
    IN [k \in 1..n |-> wvol * at(w, k) + bvol * at(b, k)]

Waveforms == SeqsUpTo(Samples, MaxLen)
NoPath == [given |-> FALSE, samples |-> <<>>]
Paths == {NoPath} \cup {[given |-> TRUE, samples |-> w] : w \in Waveforms}

IdleRun ==
    /\ word_list = <<>> /\ nfiles = <<>> /\ bg_list = <<>> /\ targets = <<>>
    /\ out_state = "absent" /\ pc = "idle" /\ error = "none"
    /\ target_list = <<>> /\ other_list = <<>> /\ tpos = 1 /\ opos = 1
    /\ word_path = "" /\ out_subdir = "" /\ digit_cnt = 0
    /\ last_file_num = 0 /\ frame = NoFrame /\ fs = <<>> /\ log = <<>>

InitMix ==
    /\ IdleRun
    /\ mpc = "start"
    /\ m_word \in Paths
    /\ m_bg \in Paths
    /\ m_tnum \in 1..MaxTNum
    /\ m_rate \in 1..MaxRate
    /\ m_wvol \in 1..MaxVol
    /\ m_bvol \in 1..MaxVol
    /\ waveform = <<>>
    /\ start_point = 0
    /\ end_point = 0
    /\ window = <<>>
    /\ m_ret = <<>>

mixInputs == <<m_word, m_bg, m_tnum, m_rate, m_wvol, m_bvol>>

\* lines 136-151: silence, or the word padded and truncated
PrepareWord ==
    /\ mpc = "start"
    /\ waveform' = prepare_word(m_word, m_tnum, m_rate)
    /\ mpc' = "prepared"
    /\ UNCHANGED <<mainVars, mixInputs, start_point, end_point, window,
                   m_ret>>

\* lines 153-155
ReturnWord ==
    /\ mpc = "prepared"
    /\ ~ m_bg.given
    /\ m_ret' = waveform
    /\ mpc' = "returned"
    /\ UNCHANGED <<mainVars, mixInputs, waveform, start_point, end_point,
                   window>>

\* lines 157-169: the random window and the blend
MixBackground ==
    /\ mpc = "prepared"
    /\ m_bg.given
    /\ LET bg_waveform == m_bg.samples
           target == Target(m_tnum, m_rate)
           hi == max_end(Len(bg_waveform), target)
       IN IF randint_raises(0, hi)
          THEN /\ mpc' = "raised"
               /\ UNCHANGED <<start_point, end_point, window, m_ret>>
          ELSE \E sp \in 0..hi :
                 LET ep == sp + target
                     win == Slice(bg_waveform, sp, ep)
                 IN /\ start_point' = sp
                    /\ end_point' = ep
                    /\ window' = win
                    /\ IF blend_raises(waveform, win)
                       THEN mpc' = "raised" /\ UNCHANGED m_ret
                       ELSE /\ mpc' = "returned"
                            /\ m_ret' = blend(waveform, win, m_wvol, m_bvol)
    /\ UNCHANGED <<mainVars, mixInputs, waveform>>

NextMix ==
    \/ PrepareWord
    \/ ReturnWord
    \/ MixBackground

SpecMix == InitMix /\ [][NextMix]_vars

----------------------------------------------------------------------------
(* Vocabulary of the properties *)

LogOf(call) == {k \in 1..Len(log) : log[k].call = call}
LogIn(dir) == {k \in 1..Len(log) : log[k].dir = dir}
IndexOf(k) == ParseInt(log[k].name)

\* a < b as strings of digits
RECURSIVE LexLess(_, _)
LexLess(a, b) ==
    IF b = <<>> THEN FALSE
    ELSE IF a = <<>> THEN TRUE
    ELSE IF Head(a) # Head(b) THEN Head(a) < Head(b)
    ELSE LexLess(Tail(a), Tail(b))

\* Python's round() of num / den: halves go to the even neighbour
Round(num, den) ==
    LET q == num \div den
        r == num % den
    IN IF 2 * r < den THEN q
       ELSE IF 2 * r > den THEN q + 1
       ELSE IF q % 2 = 0 THEN q ELSE q + 1

----------------------------------------------------------------------------
(* C1 *)

\* C1: a mix_files call that returns has written exactly N*M files, all into
\* the output directory it was given; the pair (i, j) is written under the
\* index start_cnt + i*M + j, the indices are start_cnt .. start_cnt+N*M-1,
\* each once, and the returned count is N*M.
C1_CrossProductNumbering ==
    frame.state = "returned" =>
        LET N == nfiles[frame.word_dir]
            M == Len(bg_list)
            recs == LogOf(frame.call)
        IN /\ Cardinality(recs) = N * M
           /\ frame.file_cnt = N * M
           /\ \A k \in recs :
                /\ log[k].dir = frame.out_dir
                /\ log[k].word = frame.word_dir
                /\ log[k].i \in 0..(N - 1)
                /\ log[k].j \in 0..(M - 1)
                /\ IndexOf(k) = frame.start_cnt + log[k].i * M + log[k].j
                /\ log[k].name \in fs[frame.out_dir]
           /\ \A i \in 0..(N - 1), j \in 0..(M - 1) :
                Cardinality({k \in recs : log[k].i = i /\ log[k].j = j}) = 1
           /\ {IndexOf(k) : k \in recs}
                = frame.start_cnt..(frame.start_cnt + N * M - 1)
           /\ Cardinality({log[k].name : k \in recs}) = N * M

C1_Witness ==
    /\ frame.state = "returned"
    /\ frame.start_cnt > 0
    /\ nfiles[frame.word_dir] >= 2
    /\ Len(bg_list) >= 2

----------------------------------------------------------------------------
(* C2 *)

\* C2: with no digit width passed to mix_files, the zero-padding width equals
\* the number of decimal digits of N*M (1 when N*M is 0 or 1).
C2_WidthIsDigitCount ==
    (frame.state \in {"running", "returned", "raised"} /\ ~ frame.digits_given
        /\ ~ listdir_raises(frame.word_dir))
    => frame.num_file_digits = NumDigits(frame.num_output_files)

----------------------------------------------------------------------------
(* C3 *)

\* C3: after a run that completes, in every leaf output directory all
\* filenames have the same length, the width used there is at least the digit
\* count of the largest index written there, and the filenames sort as
\* strings in the order of their indices.
C3_NamesLineUp ==
    pc = "done" =>
        \A d \in DOMAIN fs :
            /\ \A a, b \in fs[d] :
                 /\ Len(a) = Len(b)
                 /\ LexLess(a, b) <=> ParseInt(a) < ParseInt(b)
            /\ \A k, l \in LogIn(d) :
                 /\ log[k].width >= NumDigits(IndexOf(l))
                 /\ Len(log[k].name) = log[k].width

C3_Witness ==
    /\ pc = "done"
    /\ \E d \in DOMAIN fs : d # other_dir_name /\ Cardinality(fs[d]) >= 11
    /\ Cardinality(fs[other_dir_name]) >= 11

----------------------------------------------------------------------------
(* C4 *)

OtherTotal == count_word_files(other_list, nfiles) * Len(bg_list)

\* C4: each chained mix_files call into _other starts at the sum of the
\* counts of the earlier calls, no two writes into _other share a filename,
\* and after the last call the indices in _other are exactly 0 .. T-1.
C4_OtherChained ==
    /\ frame.caller = "other" =>
         frame.start_cnt =
           Cardinality({k \in LogIn(other_dir_name) : log[k].call < frame.call})
    /\ \A k, l \in LogIn(other_dir_name) :
         k # l => log[k].name # log[l].name
    /\ pc = "done" =>
         /\ {ParseInt(n) : n \in fs[other_dir_name]} = 0..(OtherTotal - 1)
         /\ Cardinality(fs[other_dir_name]) = OtherTotal
         /\ Cardinality(LogIn(other_dir_name)) = OtherTotal

C4_Witness ==
    /\ pc = "done"
    /\ Len(other_list) >= 2
    /\ Len(bg_list) >= 2
    /\ \A k \in 1..Len(other_list) : nfiles[other_list[k]] >= 2

----------------------------------------------------------------------------
(* C5 *)

\* C5: a mix_files call whose word directory or background directory is
\* empty raises no error, writes nothing and returns 0.
C5_EmptyDirNoError ==
    (frame.state \notin {"none", "entered"} /\ frame.num_output_files = 0)
    => /\ error = "none"
       /\ frame.state # "raised"
       /\ LogOf(frame.call) = {}

----------------------------------------------------------------------------
(* C9 *)

\* C9: when a requested target is no entry of the words directory, no step
\* of the run deletes or creates the output directory, creates a
\* subdirectory, starts a mix_files call or writes a file.
C9_UnknownTargetTouchesNothing ==
    [][(\E k \in 1..Len(targets) : \A n \in 1..Len(word_list) :
            targets[k] # word_list[n])
       => /\ out_state' = out_state
          /\ fs' = fs /\ fs = <<>>
          /\ log' = log /\ log = <<>>
          /\ frame' = frame /\ frame = NoFrame]_vars

C9_Witness ==
    /\ pc = "exit"
    /\ error = "ConfigurationError"
    /\ out_state = "old"
    /\ Len(targets) = 2
    /\ targets[1] = "hello"
    /\ targets[2] = "banana"

----------------------------------------------------------------------------
(* C10 *)

Failed == pc = "crashed" /\ error \in {"ValueError", "EncodeError"}

\* C10: when mixing or writing fails for a pair, that step writes nothing,
\* the files of this call are exactly those of the pairs before it, no file
\* was ever written for a pair whose mixing fails, and the run takes no
\* further step, so earlier files stay and no later call starts.
C10_FailureStopsRun ==
    /\ [](/\ \A k \in 1..Len(log) :
               ~ (bg_list[log[k].j + 1] < RunTarget)
          /\ Failed =>
               /\ frame.file_cnt = frame.i * Len(bg_list) + frame.j
               /\ Cardinality(LogOf(frame.call)) = frame.file_cnt
               /\ \A k \in LogOf(frame.call) :
                    log[k].i * Len(bg_list) + log[k].j < frame.file_cnt
               /\ \A k \in 1..Len(log) : log[k].call <= frame.call
               /\ \A k \in 1..Len(log) : log[k].name \in fs[log[k].dir])
    /\ [][/\ (pc' = "crashed" /\ pc # "crashed") => (fs' = fs /\ log' = log)
          /\ pc = "crashed" => UNCHANGED <<pc, error, frame, fs, log>>]_vars

C10_Witness ==
    /\ Failed
    /\ error = "EncodeError"
    /\ frame.caller = "other"
    /\ frame.file_cnt >= 1
    /\ Len(log) > frame.file_cnt

----------------------------------------------------------------------------
(* C6 *)

\* C6 as stated: the waveform mix_audio returns has exactly
\* round(sample_time * sample_rate) samples.
C6_LengthIsRound ==
    mpc = "returned" => Len(m_ret) = Round(m_tnum * m_rate, TDen)

\* C6 as amended: the waveform mix_audio returns has exactly
\* int(sample_time * sample_rate) samples, the product cut to its whole
\* part, which is round(sample_time * sample_rate) when the product is whole
\* and one less than it when the fractional part is above one half.
C6_LengthIsInt ==
    mpc = "returned" =>
        /\ Len(m_ret) = (m_tnum * m_rate) \div TDen
        /\ (m_tnum * m_rate) % TDen = 0
             => Len(m_ret) = Round(m_tnum * m_rate, TDen)
        /\ 2 * ((m_tnum * m_rate) % TDen) > TDen
             => Len(m_ret) = Round(m_tnum * m_rate, TDen) - 1

C6_Witness ==
    /\ mpc = "returned"
    /\ m_word.given
    /\ m_bg.given
    /\ Len(m_word.samples) < Len(m_ret)
    /\ 2 * ((m_tnum * m_rate) % TDen) > TDen
    /\ Len(m_ret) >= 1

----------------------------------------------------------------------------
(* C7 *)

\* C7: the prepared word waveform has the target count of samples, and its
\* sample i is w[i] for i < len(w) and 0 otherwise: zeros are appended at
\* the end, a long input is cut to its prefix.
C7_PadAndCutAtEnd ==
    (mpc # "start" /\ m_word.given) =>
        LET w == m_word.samples
            target == (m_tnum * m_rate) \div TDen
        IN /\ Len(waveform) = target
           /\ \A i \in 0..(target - 1) :
                waveform[i + 1] = IF i < Len(w) THEN w[i + 1] ELSE 0
           /\ Len(w) > target => waveform = SubSeq(w, 1, target)

C7_Witness ==
    /\ mpc = "prepared"
    /\ m_word.given
    /\ Len(m_word.samples) >= 1
    /\ Len(waveform) > Len(m_word.samples)

----------------------------------------------------------------------------
(* C8 *)

\* C8: with a background clip of at least the target count of samples the
\* window start lies in 0 .. len(background) - target, the window has
\* exactly target samples and lies inside the clip; with a shorter clip
\* mix_audio raises and returns no waveform.
C8_WindowInsideClip ==
    (mpc \in {"returned", "raised"} /\ m_bg.given) =>
        LET bg == m_bg.samples
            target == (m_tnum * m_rate) \div TDen
        IN IF Len(bg) >= target
           THEN /\ mpc = "returned"
                /\ start_point \in 0..(Len(bg) - target)
                /\ Len(bg) = target => start_point = 0
                /\ end_point = start_point + target
                /\ end_point <= Len(bg)
                /\ Len(window) = target
                /\ \A k \in 1..target : window[k] = bg[start_point + k]
           ELSE /\ mpc = "raised"
                /\ m_ret = <<>>
                /\ window = <<>>

C8_Witness ==
    /\ mpc = "returned"
    /\ m_bg.given
    /\ start_point >= 1
    /\ Len(window) >= 1
    /\ end_point < Len(m_bg.samples)

====
